---------------------------- MODULE Spec2Model ----------------------------
(***************************************************************************)
(* Model of src/cpu/jit_transpose_src_utils.cpp: the two JIT transpose     *)
(* kernels (jit_trans_iw_ic_t, jit_trans_iw_x4_4x_t) and the dispatcher    *)
(* create_trans_src.  The generated machine code is modelled by what its   *)
(* instructions do when the kernel is invoked: a zmm register file of 32   *)
(* registers of 16 dword lanes, opmask registers, and flat source and      *)
(* destination buffers addressed in units of typesize (one float).         *)
(*                                                                         *)
(* Buffer contents are tags: source element number n holds the value n+1,  *)
(* so every source element is distinguishable and non-zero; 0 is the float *)
(* zero written by vpxord; negative values stand for memory or registers   *)
(* that were never written (or lie beyond a buffer).                       *)
(***************************************************************************)
EXTENDS Integers, Sequences, FiniteSets, TLC

VARIABLES
    conf,        \* jit_conv_conf_t: the shape descriptor given to create_trans_src
    ndebug,      \* build flavour: TRUE when assert() is compiled out (NDEBUG)
    char_signed, \* build flavour: TRUE when plain char is signed (the x86 ABIs)
    ker,         \* what create_trans_src produced
    gpc,         \* generic kernel: position in the generated code
    zmm,         \* generic kernel: vector register file zmm0..zmm31
    kTail,       \* generic kernel: opmask k7
    reg_src,     \* generic kernel: r8, offset into src (floats)
    reg_tr_src,  \* generic kernel: r9, offset into tr_src (floats)
    reg_loop,    \* generic kernel: r12
    tr_src,      \* destination buffer ctx->tr_src (both kernels)
    obs,         \* generic kernel: record of the loads and stores executed
    IH,          \* first-layer kernel: rows of the source image (buffer extent)
    nthr_oc_b,   \* first-layer kernel: ctx->nthr_oc_b, the barrier's thread count
    nthreads,    \* first-layer kernel: number of threads that invoke the kernel
    ctx,         \* first-layer kernel: per-thread tr_src_ih_start, tr_src_ih_end
    pc,          \* first-layer kernel: per-thread position in the generated code
    regs,        \* first-layer kernel: per-thread reg_ih, reg_ih_end, reg_ptr_src,
                 \* reg_ptr_tr_src, reg_nthr_oc_b, kmsk
    bctx,        \* barrier context ctx->tr_src_bctx: arrival counter and sense
    my_sense,    \* per thread: the sense read on arrival at the barrier
    xobs         \* first-layer kernel: record of what ran: per thread the rows
                 \* processed (rows) and <<row, source address>> of their loads
                 \* (ld), <<thread, row, destination address>> of the stores
                 \* (st), stores outside the buffer (oob), barrier arrivals (arr)

gvars == << gpc, zmm, kTail, reg_src, reg_tr_src, reg_loop, obs >>
xvars == << IH, nthr_oc_b, nthreads, ctx, pc, regs, bctx, my_sense, xobs >>
cvars == << conf, ndebug, char_signed, ker >>
vars == << cvars, tr_src, gvars, xvars >>

-----------------------------------------------------------------------------
(* Bounds of the model *)
MaxIw == 33
MaxPad == 2
MaxIwX == 20
MaxNiters == 2
MaxStride == 4
MaxIH == 2
MaxThr == 2

(* enum { typesize = sizeof(float), transpose_size = 16, small_spatial = 14 };
   addresses are counted in floats, so typesize does not appear below *)
transpose_size == 16

Lanes == 0 .. 15
Uninit == -1
Junk == {-2, 0}

div_up(a, b) == (a + b - 1) \div b
max(a, b) == IF a > b THEN a ELSE b

(* bit i of the 16-bit opmask value w *)
Bit(w, i) == (w \div (2 ^ i)) % 2 = 1

(* mov(regw_tmp, w); kmovw(k, regw_tmp): the low 16 bits of w *)
kmovw(w) == w % 65536

(* value of source element [spatial position p][channel c] *)
SrcVal(p, c) == 16 * p + c + 1

-----------------------------------------------------------------------------
(* AVX-512 instructions used by the generic kernel, on a register file Z *)

(* valignd dst, a, b, imm: (a:b) shifted right by imm dwords *)
valignd(Z, d, a, b, imm) ==
    [Z EXCEPT ![d] = [i \in Lanes |->
        IF i + imm < 16 THEN Z[b][i + imm] ELSE Z[a][i + imm - 16]]]

(* vmovaps dst|k, s: merge-masked register move *)
vmovaps(Z, d, k, s) ==
    [Z EXCEPT ![d] = [i \in Lanes |-> IF Bit(k, i) THEN Z[s][i] ELSE Z[d][i]]]

(* the 128-bit lane selection shared by vshuff32x4 and vshuff64x2 *)
Shuf128(A, B, imm) ==
    [i \in Lanes |->
        LET q == i \div 4
            sel == (imm \div (4 ^ q)) % 4
        IN  IF q < 2 THEN A[4 * sel + (i % 4)] ELSE B[4 * sel + (i % 4)]]

(* vshuff32x4 dst|k, a, b, imm: merge-masked per dword *)
vshuff32x4(Z, d, k, a, b, imm) ==
    LET T == Shuf128(Z[a], Z[b], imm)
    IN  [Z EXCEPT ![d] = [i \in Lanes |-> IF Bit(k, i) THEN T[i] ELSE Z[d][i]]]

(* vshuff64x2 dst, a, b, imm (no mask) *)
vshuff64x2(Z, d, a, b, imm) ==
    [Z EXCEPT ![d] = Shuf128(Z[a], Z[b], imm)]

-----------------------------------------------------------------------------
(* jit_trans_iw_ic_t: constants computed by generate() when the kernel is
   built, and the opmask constants it loads *)
transposes == div_up(conf.iw, transpose_size)
loop_iters0 == max(0, transposes - 1)
tail == conf.iw - loop_iters0 * transpose_size
src_stride == conf.ic_block
tr_src_stride == conf.tr_iw
src_step == conf.ic_block * transpose_size
tr_src_step == conf.ic_block
left_pad == conf.l_pad
right_pad == conf.tr_iw - conf.iw - left_pad

k3333 == 13107
k5555 == 21845
kAAAA == 43690
kCCCC == 52428
k0F0F == 3855
kF0F0 == 61680
k0 == 65535

src_zmm(i) == i
tmp_zmm(i) == 16 + i

(* The running state of one transpose() call is a record S:
     z  register file          k   kTail
     m  destination buffer     ld  source positions loaded
     st <<row, column>> stored with data, zs <<row, column>> stored with zero
     oob TRUE when a store left the destination buffer                      *)

(* vmovups(src_zmm(i), [reg_src + i * src_stride]); g is what memory beyond
   the source buffer holds *)
load(S, i, g) ==
    LET p == (reg_src + i * src_stride) \div conf.ic_block
        v == [c \in Lanes |-> IF p < conf.iw THEN SrcVal(p, c) ELSE g]
    IN  [S EXCEPT !.z[src_zmm(i)] = v, !.ld = @ \cup {p}]

(* vmovups [base + i * tr_src_stride]{k}, V on the flat destination buffer:
   row r of the buffer starts at r * tr_iw, c0 is the store's first column
   counted from the start of row r *)
RECURSIVE StoreRows(_, _, _, _, _)
StoreRows(M, r, c0, V, k) ==
    IF r > 15 \/ c0 + 15 < 0 THEN M
    ELSE StoreRows(
            [M EXCEPT ![r] = [c \in DOMAIN M[r] |->
                IF c >= c0 /\ c < c0 + 16 /\ Bit(k, c - c0)
                THEN V[c - c0] ELSE M[r][c]]],
            r + 1, c0 - conf.tr_iw, V, k)

StoreCols(i, base, k) == {<<i, base + l>> : l \in {x \in Lanes : Bit(k, x)}}

StoreOob(i, base, k) ==
    \E l \in Lanes : Bit(k, l) /\ i * conf.tr_iw + base + l >= 16 * conf.tr_iw

(* the padding lambda of store: a zero vector through a mask of pad lanes *)
padmask_bug(pad) == kmovw(2 ^ pad)
padmask(pad) == kmovw(2 ^ pad - 1)

padding(S, r, i, reg, pad) ==
    LET k == padmask(pad)
        zero == [l \in Lanes |-> 0]
    IN  [S EXCEPT !.k = k,
                  !.z[r] = zero,
                  !.m = StoreRows(S.m, i, reg, zero, k),
                  !.zs = @ \cup StoreCols(i, reg, k),
                  !.oob = @ \/ StoreOob(i, reg, k)]

(* the store lambda: register r to destination row i *)
store_base_bug(l_pad) == reg_tr_src
store_base(l_pad) == IF l_pad > 0 THEN reg_tr_src + l_pad ELSE reg_tr_src

store(S, r, i, nrows, l_pad, r_pad) ==
    LET tmp == store_base(l_pad)
        kt == IF tail # transpose_size THEN kmovw(2 ^ tail - 1) ELSE S.k
        partial_store == nrows < 16
        k == IF partial_store THEN kt ELSE k0
        S1 == [S EXCEPT !.k = kt,
                        !.m = StoreRows(S.m, i, tmp, S.z[r], k),
                        !.st = @ \cup StoreCols(i, tmp, k),
                        !.oob = @ \/ StoreOob(i, tmp, k)]
        S2 == IF r_pad > 0 THEN padding(S1, r, i, tmp + tail, r_pad) ELSE S1
    IN  IF l_pad > 0 THEN padding(S2, r, i, reg_tr_src, l_pad) ELSE S2

(* transpose16x8(base_idx), "swap 1": iteration i *)
swap1_iter(S, base_idx, i, nrows, g) ==
    LET src_idx0 == base_idx + i * 2
        src_idx1 == src_idx0 + 1
        next_src_idx0 == src_idx0 + 2
        next_src_idx1 == src_idx1 + 2
        load_next == base_idx = 0 \/ i < 3
        tmp0 == tmp_zmm(src_idx0)
        tmp1 == tmp_zmm(src_idx1)
        src0 == src_zmm(src_idx0)
        src1 == src_zmm(src_idx1)
        S1 == IF base_idx = 0 /\ i = 0
              THEN load(load(S, src_idx0, g), src_idx1, g) ELSE S
        S2 == IF next_src_idx0 < nrows /\ load_next
              THEN load(S1, next_src_idx0, g) ELSE S1
        S3 == [S2 EXCEPT !.z = valignd(@, tmp0, src0, src0, 1)]
        S4 == IF next_src_idx1 < nrows /\ load_next
              THEN load(S3, next_src_idx1, g) ELSE S3
        S5 == [S4 EXCEPT !.z = valignd(@, tmp1, src1, src1, 15)]
        S6 == [S5 EXCEPT !.z = vmovaps(@, src0, kAAAA, tmp1)]
    IN  [S6 EXCEPT !.z = vmovaps(@, src1, k5555, tmp0)]

(* "swap 2": iteration i *)
swap2_iter(S, base_idx, i) ==
    LET select_half == IF i < 2 THEN 0 ELSE 2
        src_idx0 == base_idx + i + select_half + 0
        src_idx2 == src_idx0 + 2
        tmp0 == tmp_zmm(src_idx0)
        tmp1 == tmp_zmm(src_idx2)
        src0 == src_zmm(src_idx0)
        src2 == src_zmm(src_idx2)
        Z1 == valignd(S.z, tmp0, src0, src0, 2)
        Z2 == valignd(Z1, tmp1, src2, src2, 14)
        Z3 == vmovaps(Z2, src2, k3333, tmp0)
    IN  [S EXCEPT !.z = vmovaps(Z3, src0, kCCCC, tmp1)]

(* "swap 4": iteration i; 0xb1 = 177 *)
swap4_iter(S, base_idx, i) ==
    LET src_idx0 == base_idx + i
        src_idx4 == src_idx0 + 4
        tmp0 == tmp_zmm(src_idx0)
        src0 == src_zmm(src_idx0)
        src4 == src_zmm(src_idx4)
        Z1 == vmovaps(S.z, tmp0, k0, src0)
        Z2 == vshuff32x4(Z1, src0, kF0F0, src4, src4, 177)
    IN  [S EXCEPT !.z = vshuff32x4(Z2, src4, k0F0F, tmp0, tmp0, 177)]

RECURSIVE swap1(_, _, _, _, _)
swap1(S, base_idx, i, nrows, g) ==
    IF i = 4 THEN S
    ELSE swap1(swap1_iter(S, base_idx, i, nrows, g), base_idx, i + 1, nrows, g)

RECURSIVE swap2(_, _, _)
swap2(S, base_idx, i) ==
    IF i = 4 THEN S ELSE swap2(swap2_iter(S, base_idx, i), base_idx, i + 1)

RECURSIVE swap4(_, _, _)
swap4(S, base_idx, i) ==
    IF i = 4 THEN S ELSE swap4(swap4_iter(S, base_idx, i), base_idx, i + 1)

transpose16x8(S, base_idx, nrows, g) ==
    swap4(swap2(swap1(S, base_idx, 0, nrows, g), base_idx, 0), base_idx, 0)

(* fixup16x16, "swap 8": 0x44 = 68 for rows 0..7, 0xee = 238 for rows 8..15 *)
RECURSIVE fixup_lo(_, _, _, _, _)
fixup_lo(S, i, nrows, l_pad, r_pad) ==
    IF i = 8 THEN S
    ELSE LET tmp == tmp_zmm(i)
             S1 == [S EXCEPT !.z = vshuff64x2(@, tmp, src_zmm(i), src_zmm(8 + i), 68)]
         IN  fixup_lo(store(S1, tmp, i, nrows, l_pad, r_pad), i + 1, nrows, l_pad, r_pad)

RECURSIVE fixup_hi(_, _, _, _, _)
fixup_hi(S, i, nrows, l_pad, r_pad) ==
    IF i = 8 THEN S
    ELSE LET tmp == tmp_zmm(8 + i)
             S1 == [S EXCEPT !.z = vshuff64x2(@, tmp, src_zmm(i), src_zmm(8 + i), 238)]
         IN  fixup_hi(store(S1, tmp, 8 + i, nrows, l_pad, r_pad), i + 1, nrows, l_pad, r_pad)

(* the register and buffer state a transpose() call starts from *)
Entry ==
    [z |-> zmm, k |-> kTail, m |-> tr_src, ld |-> {}, st |-> {}, zs |-> {},
     oob |-> FALSE]

Observe(S) ==
    [obs EXCEPT !.ld_all = @ \cup S.ld, !.ld = S.ld, !.st = S.st,
                !.dcols = @ \cup {x[2] : x \in S.st},
                !.zcols = @ \cup {x[2] : x \in S.zs},
                !.oob = @ \/ S.oob,
                !.tiles = @ + 1]

Ran(S) ==
    /\ zmm' = S.z
    /\ kTail' = S.k
    /\ tr_src' = S.m
    /\ obs' = Observe(S)

(* jit_trans_iw_ic_t::transpose(nrows, l_pad, r_pad, nontemporal_stores):
   the emitted code run from the current registers and buffer, i.e.
   transpose16x8(0); transpose16x8(8); fixup16x16().  nontemporal_stores only
   selects vmovntps, which stores the same lanes; the prefetches change
   neither registers nor memory. *)
transpose(nrows, l_pad, r_pad, g) ==
    IF nrows = 0 THEN Ran(Entry)
    ELSE \E S1 \in {transpose16x8(Entry, 0, nrows, g)} :
         \E S2 \in {transpose16x8(S1, 8, nrows, g)} :
         \E S3 \in {fixup_lo(S2, 0, nrows, l_pad, r_pad)} :
            Ran(fixup_hi(S3, 0, nrows, l_pad, r_pad))

-----------------------------------------------------------------------------
(* create_trans_src(conf) *)
Vers == {"ver_4fma", "ver_fma"}

create_trans_src_bug ==
    /\ ker = "none"
    /\ ker' = IF conf.ver = "ver_4fma" /\ conf.is_1stconv THEN "jit_trans_iw_ic_t"
              ELSE IF conf.ver = "ver_4fma" /\ ~conf.is_1stconv THEN "jit_trans_iw_x4_4x_t"
              ELSE IF ~ndebug THEN "abort"
              ELSE "nullptr"
    /\ UNCHANGED << conf, ndebug, char_signed, tr_src, gvars, xvars >>

create_trans_src ==
    /\ ker = "none"
    /\ ker' = IF conf.ver = "ver_4fma" /\ ~conf.is_1stconv THEN "jit_trans_iw_ic_t"
              ELSE IF conf.ver = "ver_4fma" /\ conf.is_1stconv THEN "jit_trans_iw_x4_4x_t"
              ELSE IF ~ndebug THEN "abort"      \* assert(!"unsupported configuration")
              ELSE "nullptr"                    \* return nullptr
    /\ UNCHANGED << conf, ndebug, char_signed, tr_src, gvars, xvars >>

-----------------------------------------------------------------------------
(* jit_trans_iw_ic_t: one invocation of the generated code *)

loop_iters1 == IF left_pad > 0 /\ loop_iters0 > 0 THEN loop_iters0 - 1 ELSE loop_iters0

AfterLeft == IF loop_iters1 # 0 THEN "loop" ELSE "tail"

(* preamble, the four pointer loads and the six kmovw of generate() *)
ic_entry ==
    /\ ker = "jit_trans_iw_ic_t"
    /\ gpc = "entry"
    /\ reg_src' = 0
    /\ reg_tr_src' = 0
    /\ gpc' = IF left_pad > 0 /\ loop_iters0 > 0 THEN "left" ELSE AfterLeft
    /\ reg_loop' = IF gpc' = "loop" THEN loop_iters1 ELSE reg_loop
    /\ UNCHANGED << cvars, tr_src, zmm, kTail, obs, xvars >>

(* if (left_pad > 0 && loop_iters > 0) { transpose(16, left_pad, 0); ... } *)
ic_left ==
    /\ gpc = "left"
    /\ transpose(transpose_size, left_pad, 0, 0)
    /\ reg_src' = reg_src + src_step
    /\ reg_tr_src' = reg_tr_src + tr_src_step + left_pad
    /\ gpc' = AfterLeft
    /\ reg_loop' = IF gpc' = "loop" THEN loop_iters1 ELSE reg_loop
    /\ UNCHANGED << cvars, xvars >>

(* L("loop"): transpose(16, 0, 0); ...; sub(reg_loop, 1); jnz("loop") *)
ic_loop ==
    /\ gpc = "loop"
    /\ transpose(transpose_size, 0, 0, 0)
    /\ reg_src' = reg_src + src_step
    /\ reg_tr_src' = reg_tr_src + tr_src_step
    /\ reg_loop' = reg_loop - 1
    /\ gpc' = IF reg_loop' # 0 THEN "loop" ELSE "tail"
    /\ UNCHANGED << cvars, xvars >>

(* the last transpose(tail, ...) and postamble *)
tail_l_pad == IF transposes > 1 THEN 0 ELSE left_pad

ic_tail ==
    /\ gpc = "tail"
    /\ \E g \in Junk : transpose(tail, tail_l_pad, right_pad, g)
    /\ gpc' = "done"
    /\ UNCHANGED << cvars, reg_src, reg_tr_src, reg_loop, xvars >>

-----------------------------------------------------------------------------
(* Initial states: a shape for the generic kernel, nothing run yet *)
(* pad widths: the small ones, and those around the 16 lanes of one store *)
Pads == (0 .. MaxPad) \cup {transpose_size - 1, transpose_size, transpose_size + 1}

GenericConfs ==
    {[ver |-> "ver_4fma", is_1stconv |-> FALSE, ic_block |-> 16, iw |-> w,
      tr_iw |-> l + w + r, l_pad |-> l, tr_ld |-> 0, stride_w |-> 1] :
        w \in 1 .. MaxIw, l \in Pads, r \in Pads}

XIdle ==
    /\ IH = 0 /\ nthr_oc_b = 0 /\ nthreads = 0
    /\ ctx = << >> /\ pc = << >> /\ regs = << >>
    /\ bctx = [ctr |-> 0, sense |-> 0] /\ my_sense = << >>
    /\ xobs = [rows |-> << >>, ld |-> << >>, st |-> {}, oob |-> FALSE,
               arr |-> << >>]

GIdle ==
    /\ gpc = "entry"
    /\ zmm = [r \in 0 .. 31 |-> [l \in Lanes |-> Uninit]]
    /\ kTail = 0
    /\ reg_src = 0 /\ reg_tr_src = 0 /\ reg_loop = 0
    /\ obs = [ld_all |-> {}, ld |-> {}, st |-> {}, dcols |-> {}, zcols |-> {},
              oob |-> FALSE, tiles |-> 0]

Init ==
    /\ conf \in GenericConfs
    /\ ndebug = TRUE
    /\ char_signed = TRUE
    /\ ker = "none"
    /\ tr_src = [r \in 0 .. 15 |-> [c \in 0 .. conf.tr_iw - 1 |-> Uninit]]
    /\ GIdle
    /\ XIdle

Next == create_trans_src \/ ic_entry \/ ic_left \/ ic_loop \/ ic_tail

Spec == Init /\ [][Next]_vars

-----------------------------------------------------------------------------
(* jit_trans_iw_x4_4x_t: constants of generate() *)
simd_w == 16
niters == conf.tr_ld \div simd_w

(* static int mask[16] *)
mask == << 0, 4, 8, 12, 1, 5, 9, 13, 2, 6, 10, 14, 3, 7, 11, 15 >>
vmsk == [i \in Lanes |-> mask[i + 1]]

(* conversion of an int to plain char *)
to_char(x) ==
    LET b == x % 256 IN IF char_signed /\ b >= 128 THEN b - 256 ELSE b

(* const char load_mask = (1 << (c.iw % simd_w)) - 1 *)
load_mask == to_char(2 ^ (conf.iw % simd_w) - 1)

(* row pitch of the destination: c.stride_w * c.tr_ld *)
tr_src_pitch_bug == conf.tr_ld
tr_src_pitch == conf.stride_w * conf.tr_ld

Threads == 1 .. nthreads

(* value of source element number a of the [IH][iw] image; g is what memory
   beyond the image holds *)
SrcX(a, g) == IF a < IH * conf.iw THEN a + 1 ELSE g

vreg(iter, i) == 4 * iter + i
vtmp(i) == 24 + i

(* vpermps dst, idx, s *)
vpermps(Z, d, idx, s) ==
    [Z EXCEPT ![d] = [i \in Lanes |-> Z[s][idx[i] % 16]]]

(* lanes of the load of register (iter, i) that access memory *)
LoadLanes(kmsk, iter, i) ==
    LET off == (iter * 4 + i) * simd_w
    IN  IF off + simd_w <= conf.iw THEN Lanes
        ELSE IF off < conf.iw THEN {l \in Lanes : Bit(kmsk, l)}
        ELSE {}

(* emit_load(iter), register i: vmovups v, [src + off] / vmovups v|kmsk|T_z,
   [src + off] / vpxord v, v, v *)
emit_load_reg(Z, src, kmsk, iter, i, g) ==
    LET off == (iter * 4 + i) * simd_w
        en == LoadLanes(kmsk, iter, i)
    IN  [Z EXCEPT ![vreg(iter, i)] =
            [l \in Lanes |-> IF l \in en THEN SrcX(src + off + l, g) ELSE 0]]

emit_load(Z, src, kmsk, iter, g) ==
    emit_load_reg(emit_load_reg(emit_load_reg(emit_load_reg(
        Z, src, kmsk, iter, 0, g), src, kmsk, iter, 1, g),
        src, kmsk, iter, 2, g), src, kmsk, iter, 3, g)

(* emit_tr(iter): 0x88 = 136, 0xdd = 221 *)
emit_tr(Z, iter) ==
    LET P0 == vpermps(Z, vreg(iter, 0), vmsk, vreg(iter, 0))
        P1 == vpermps(P0, vreg(iter, 1), vmsk, vreg(iter, 1))
        P2 == vpermps(P1, vreg(iter, 2), vmsk, vreg(iter, 2))
        P3 == vpermps(P2, vreg(iter, 3), vmsk, vreg(iter, 3))
        T0 == vshuff32x4(P3, vtmp(0), k0, vreg(iter, 0), vreg(iter, 1), 136)
        T1 == vshuff32x4(T0, vtmp(1), k0, vreg(iter, 0), vreg(iter, 1), 221)
        T2 == vshuff32x4(T1, vtmp(2), k0, vreg(iter, 2), vreg(iter, 3), 136)
        T3 == vshuff32x4(T2, vtmp(3), k0, vreg(iter, 2), vreg(iter, 3), 221)
        R0 == vshuff32x4(T3, vreg(iter, 0), k0, vtmp(0), vtmp(2), 136)
        R2 == vshuff32x4(R0, vreg(iter, 2), k0, vtmp(0), vtmp(2), 221)
        R1 == vshuff32x4(R2, vreg(iter, 1), k0, vtmp(1), vtmp(3), 136)
    IN  vshuff32x4(R1, vreg(iter, 3), k0, vtmp(1), vtmp(3), 221)

RECURSIVE emit_loads(_, _, _, _, _)
emit_loads(Z, src, kmsk, iter, g) ==
    IF iter >= niters THEN Z
    ELSE emit_loads(emit_load(Z, src, kmsk, iter, g), src, kmsk, iter + 1, g)

RECURSIVE emit_trs(_, _)
emit_trs(Z, iter) ==
    IF iter >= niters THEN Z ELSE emit_trs(emit_tr(Z, iter), iter + 1)

(* offsets (from reg_ptr_tr_src) of the 16-lane stores of emit_store *)
StoreOffs == {i * conf.tr_ld + iter * simd_w : i \in 0 .. 3, iter \in 0 .. niters - 1}

(* emit_store: vmovups [tr_src + (i * tr_ld + iter * simd_w)], vreg(iter, i),
   emitted for i = 0..3, iter = 0..niters-1, i.e. in increasing offset: an
   address holds the lane of the last store that covers it *)
emit_store(M, Z, dst) ==
    LET offs == StoreOffs
    IN  [a \in DOMAIN M |->
            IF a < dst \/ a >= dst + 4 * conf.tr_ld THEN M[a]
            ELSE LET C == {o \in offs : a - dst >= o /\ a - dst < o + simd_w}
                 IN  IF C = {} THEN M[a]
                     ELSE LET o == CHOOSE x \in C : \A y \in C : y <= x
                          IN  Z[vreg((o % conf.tr_ld) \div simd_w,
                                     o \div conf.tr_ld)][a - dst - o]]

(* addresses the stores of one row touch, and the source addresses its loads
   touch *)
StoreAddrs(dst) == {dst + o + l : o \in StoreOffs, l \in Lanes}

LoadAddrs(src, kmsk) ==
    UNION {{src + (iter * 4 + i) * simd_w + l : l \in LoadLanes(kmsk, iter, i)} :
            iter \in 0 .. niters - 1, i \in 0 .. 3}

(* what a load beyond the source image may return *)
Beyond(src, kmsk) ==
    IF \E a \in LoadAddrs(src, kmsk) : a >= IH * conf.iw THEN Junk ELSE {0}

(* emit_tr_iw() for the row at reg_ptr_src / reg_ptr_tr_src, as thread t: the
   new destination buffer, and the record of the row, its loads and stores *)
emit_tr_iw(t) ==
    LET r == regs[t]
        Z0 == [x \in 0 .. 27 |-> [l \in Lanes |-> Uninit]]
    IN  \E g \in Beyond(r.reg_ptr_src, r.kmsk) :
        \E Z1 \in {emit_loads(Z0, r.reg_ptr_src, r.kmsk, 0, g)} :
        \E Z2 \in {emit_trs(Z1, 0)} :
            /\ tr_src' = emit_store(tr_src, Z2, r.reg_ptr_tr_src)
            /\ xobs' = [xobs EXCEPT
                    !.rows[t] = Append(@, r.reg_ih),
                    !.ld[t] = @ \cup {<<r.reg_ih, r.reg_ptr_src>>},
                    !.st = @ \cup {<<t, r.reg_ih, r.reg_ptr_tr_src>>},
                    !.oob = @ \/ \E a \in StoreAddrs(r.reg_ptr_tr_src) :
                                    a \notin DOMAIN tr_src]

-----------------------------------------------------------------------------
(* simple_barrier::generate(code, reg_ctx, reg_nthr): a sense-reversing
   counting barrier on the shared context (arrival counter, sense flag) *)

(* arrival: read the sense, count in; the last of nthr resets the counter,
   flips the sense and goes on, the others start to wait *)
barrier_arrive(t, nthr, wait, go) ==
    /\ my_sense' = [my_sense EXCEPT ![t] = bctx.sense]
    /\ xobs' = [xobs EXCEPT !.arr[t] = @ + 1]
    /\ IF bctx.ctr + 1 = nthr
       THEN /\ bctx' = [ctr |-> 0, sense |-> 1 - bctx.sense]
            /\ pc' = [pc EXCEPT ![t] = go]
       ELSE /\ bctx' = [bctx EXCEPT !.ctr = @ + 1]
            /\ pc' = [pc EXCEPT ![t] = wait]

(* the wait ends once the sense differs from the one read on arrival *)
barrier_wait(t, go) ==
    /\ bctx.sense # my_sense[t]
    /\ pc' = [pc EXCEPT ![t] = go]

-----------------------------------------------------------------------------
(* jit_trans_iw_x4_4x_t: one invocation of the generated code by thread t *)

(* preamble and the loads of the context fields *)
x4_entry(t) ==
    /\ ker = "jit_trans_iw_x4_4x_t"
    /\ pc[t] = "entry"
    /\ regs' = [regs EXCEPT ![t] =
            [reg_ih |-> ctx[t].tr_src_ih_start, reg_ih_end |-> ctx[t].tr_src_ih_end,
             reg_ptr_src |-> 0, reg_ptr_tr_src |-> 0,
             reg_nthr_oc_b |-> nthr_oc_b, kmsk |-> 0]]
    /\ pc' = [pc EXCEPT ![t] = "sync1"]
    /\ UNCHANGED << cvars, tr_src, gvars, IH, nthr_oc_b, nthreads, ctx, bctx,
                    my_sense, xobs >>

(* the thread count handed to the barrier by emit_tr_sync *)
sync_nthr_bug(t) == 1
sync_nthr(t) == regs[t].reg_nthr_oc_b

(* emit_tr_sync(): the first one, and the one before postamble *)
emit_tr_sync_bug(t) ==
    /\ \/ /\ pc[t] = "sync1"
          /\ pc' = [pc EXCEPT ![t] = "cmp"]
          /\ UNCHANGED << bctx, my_sense, xobs >>
       \/ /\ pc[t] = "sync2"
          /\ barrier_arrive(t, sync_nthr(t), "wait2", "ret")
    /\ UNCHANGED << cvars, tr_src, gvars, IH, nthr_oc_b, nthreads, ctx, regs >>

emit_tr_sync(t) ==
    /\ \/ /\ pc[t] = "sync1"
          /\ barrier_arrive(t, sync_nthr(t), "wait1", "cmp")
       \/ /\ pc[t] = "sync2"
          /\ barrier_arrive(t, sync_nthr(t), "wait2", "ret")
    /\ UNCHANGED << cvars, tr_src, gvars, IH, nthr_oc_b, nthreads, ctx, regs >>

tr_sync_wait(t) ==
    /\ \/ /\ pc[t] = "wait1"
          /\ barrier_wait(t, "cmp")
       \/ /\ pc[t] = "wait2"
          /\ barrier_wait(t, "ret")
    /\ UNCHANGED << cvars, tr_src, gvars, IH, nthr_oc_b, nthreads, ctx, regs,
                    bctx, my_sense, xobs >>

(* cmp(reg_ih, reg_ih_end); je(l_tr_done); then the mask and pointer set-up *)
x4_cmp_bug(t) ==
    /\ pc[t] = "cmp"
    /\ IF regs[t].reg_ih = regs[t].reg_ih_end
       THEN /\ pc' = [pc EXCEPT ![t] = "ret"]
            /\ regs' = regs
       ELSE /\ pc' = [pc EXCEPT ![t] = "loop"]
            /\ regs' = [regs EXCEPT
                    ![t].kmsk = IF conf.iw % simd_w # 0 THEN kmovw(load_mask) ELSE @,
                    ![t].reg_ptr_src = @ + regs[t].reg_ih * conf.iw,
                    ![t].reg_ptr_tr_src = @ + regs[t].reg_ih * tr_src_pitch]
    /\ UNCHANGED << cvars, tr_src, gvars, IH, nthr_oc_b, nthreads, ctx, bctx,
                    my_sense, xobs >>

x4_cmp(t) ==
    /\ pc[t] = "cmp"
    /\ IF regs[t].reg_ih = regs[t].reg_ih_end
       THEN /\ pc' = [pc EXCEPT ![t] = "sync2"]
            /\ regs' = regs
       ELSE /\ pc' = [pc EXCEPT ![t] = "loop"]
            /\ regs' = [regs EXCEPT
                    ![t].kmsk = IF conf.iw % simd_w # 0 THEN kmovw(load_mask) ELSE @,
                    ![t].reg_ptr_src = @ + regs[t].reg_ih * conf.iw,
                    ![t].reg_ptr_tr_src = @ + regs[t].reg_ih * tr_src_pitch]
    /\ UNCHANGED << cvars, tr_src, gvars, IH, nthr_oc_b, nthreads, ctx, bctx,
                    my_sense, xobs >>

(* L(l_ih_loop): emit_tr_iw(); advance both pointers; inc(reg_ih);
   cmp(reg_ih, reg_ih_end); jl(l_ih_loop) *)
x4_row(t) ==
    /\ pc[t] = "loop"
    /\ emit_tr_iw(t)
    /\ regs' = [regs EXCEPT ![t].reg_ptr_src = @ + conf.iw,
                            ![t].reg_ptr_tr_src = @ + tr_src_pitch,
                            ![t].reg_ih = @ + 1]
    /\ pc' = [pc EXCEPT ![t] =
                IF regs'[t].reg_ih < regs'[t].reg_ih_end THEN "loop" ELSE "sync2"]
    /\ UNCHANGED << cvars, gvars, IH, nthr_oc_b, nthreads, ctx, bctx, my_sense >>

ThreadStep(t) ==
    x4_entry(t) \/ emit_tr_sync(t) \/ tr_sync_wait(t) \/ x4_cmp(t) \/ x4_row(t)

-----------------------------------------------------------------------------
(* Initial states for the first-layer kernel *)
X4Confs(Iws, Lds, Strides) ==
    {[ver |-> "ver_4fma", is_1stconv |-> TRUE, ic_block |-> 16, iw |-> w,
      tr_iw |-> 0, l_pad |-> 0, tr_ld |-> ld, stride_w |-> sw] :
        w \in Iws, ld \in Lds, sw \in Strides}

(* row ranges handed to n threads: consecutive, disjoint, covering [0, h) *)
Partitions(n, h) ==
    {c \in [1 .. n -> [tr_src_ih_start : 0 .. h, tr_src_ih_end : 0 .. h]] :
        /\ c[1].tr_src_ih_start = 0
        /\ c[n].tr_src_ih_end = h
        /\ \A t \in 1 .. n : c[t].tr_src_ih_start <= c[t].tr_src_ih_end
        /\ \A t \in 1 .. n - 1 : c[t].tr_src_ih_end = c[t + 1].tr_src_ih_start}

XStart ==
    /\ ker = "none"
    /\ ndebug = TRUE
    /\ GIdle
    /\ tr_src = [a \in 0 .. IH * conf.stride_w * conf.tr_ld - 1 |-> Uninit]
    /\ pc = [t \in Threads |-> "entry"]
    /\ regs = [t \in Threads |->
                [reg_ih |-> 0, reg_ih_end |-> 0, reg_ptr_src |-> 0,
                 reg_ptr_tr_src |-> 0, reg_nthr_oc_b |-> 0, kmsk |-> 0]]
    /\ bctx = [ctr |-> 0, sense |-> 0]
    /\ my_sense = [t \in Threads |-> 0]
    /\ xobs = [rows |-> [t \in Threads |-> << >>],
               ld |-> [t \in Threads |-> {}],
               st |-> {},
               oob |-> FALSE,
               arr |-> [t \in Threads |-> 0]]

(* one thread, any pair of ih_start and ih_end, every width; the two char
   flavours differ only when the load mask has 8 or more lanes *)
InitRow ==
    /\ conf \in X4Confs(1 .. MaxIwX, {simd_w * n : n \in 1 .. MaxNiters}, {MaxStride})
    /\ char_signed \in (IF conf.iw % simd_w >= 8 THEN BOOLEAN ELSE {TRUE})
    /\ IH = MaxIH
    /\ nthr_oc_b = 1
    /\ nthreads = 1
    /\ ctx \in [1 .. 1 -> [tr_src_ih_start : 0 .. MaxIH, tr_src_ih_end : 0 .. MaxIH]]
    /\ XStart

(* several threads with disjoint row ranges and one barrier context *)
InitThr ==
    /\ conf \in X4Confs({MaxIwX}, {simd_w}, {1, MaxStride})
    /\ char_signed = TRUE
    /\ IH = MaxIH
    /\ nthr_oc_b \in 1 .. MaxThr
    /\ nthreads \in 1 .. MaxThr
    /\ ctx \in Partitions(nthreads, IH)
    /\ XStart

InitX4 == InitRow \/ InitThr

NextX4 == create_trans_src \/ \E t \in Threads : ThreadStep(t)

SpecX4 == InitX4 /\ [][NextX4]_vars

(* The threads alone, on one shape, as many as nthr_oc_b or one fewer.  Every invoking thread is a running
   thread of the caller's team and the dispatcher returns: weak fairness of
   each thread's steps and of create_trans_src *)
InitFair ==
    /\ conf \in X4Confs({MaxIwX}, {simd_w}, {MaxStride})
    /\ char_signed = TRUE
    /\ IH = MaxIH
    /\ nthr_oc_b \in 1 .. MaxThr
    /\ nthreads \in {n \in 1 .. nthr_oc_b : n >= nthr_oc_b - 1}
    /\ ctx \in Partitions(nthreads, IH)
    /\ XStart

FairSpecX4 ==
    /\ InitFair
    /\ [][NextX4]_vars
    /\ WF_vars(create_trans_src)
    /\ \A t \in 1 .. MaxThr : WF_vars(t \in Threads /\ ThreadStep(t))

-----------------------------------------------------------------------------
(* Initial states for the dispatcher alone: every combination of ver and
   is_1stconv, in both build flavours, on the shapes of both kernels *)
InitCreate ==
    /\ \E c \in GenericConfs \cup X4Confs(1 .. MaxIwX, {simd_w}, {MaxStride}) :
       \E v \in Vers : \E f \in BOOLEAN :
            conf = [c EXCEPT !.ver = v, !.is_1stconv = f]
    /\ ndebug \in BOOLEAN
    /\ char_signed = TRUE
    /\ ker = "none"
    /\ tr_src = << >>
    /\ GIdle
    /\ XIdle

SpecCreate == InitCreate /\ [][create_trans_src]_vars

-----------------------------------------------------------------------------
(* Properties of the generic kernel, under Spec *)

(* C1: after one invocation of the generic kernel, dest[c][i + l_pad] equals
   src[i][c] for every spatial position i in [0, iw) and every channel c in
   [0, 16), for every number of tiles *)
C1_Transposed ==
    gpc = "done" =>
        \A i \in 0 .. conf.iw - 1 : \A c \in Lanes :
            tr_src[c][i + conf.l_pad] = SrcVal(i, c)

(* a left-padded first tile, a looped middle tile and a tail tile have run *)
C1_Witness ==
    /\ gpc = "done" /\ obs.tiles = 3 /\ conf.l_pad > 0 /\ tail < transpose_size
    /\ tr_src[15][conf.iw - 1 + conf.l_pad] = SrcVal(conf.iw - 1, 15)

(* C5: when iw is not a multiple of 16 the final partial tile loads exactly
   the tail source positions that exist and stores exactly tail lanes per
   channel row; no source position >= iw is ever loaded and no destination
   column >= tr_iw is ever stored *)
C5_TailBounds ==
    (gpc = "done" /\ conf.iw % transpose_size # 0) =>
        LET first == transpose_size * (transposes - 1)
        IN  /\ obs.ld = first .. conf.iw - 1
            /\ obs.st = {<<c, conf.l_pad + x>> : c \in Lanes, x \in first .. conf.iw - 1}
            /\ \A p \in obs.ld_all : p < conf.iw
            /\ \A x \in obs.dcols \cup obs.zcols : x < conf.tr_iw
            /\ ~obs.oob

(* C6 as stated: for every pad width, after one invocation every channel row
   is zero in the columns [0, l_pad) and [iw + l_pad, tr_iw), and no zero-pad
   store touched a data column [l_pad, l_pad + iw) *)
C6_PadsZero ==
    gpc = "done" =>
        /\ \A c \in Lanes :
           \A x \in (0 .. conf.l_pad - 1) \cup (conf.iw + conf.l_pad .. conf.tr_iw - 1) :
                tr_src[c][x] = 0
        /\ obs.zcols \cap (conf.l_pad .. conf.l_pad + conf.iw - 1) = {}

(* C6 amended: the same, for pad widths of at most 16 lanes (one store) *)
C6_PadsZeroUpTo16 ==
    (gpc = "done" /\ left_pad <= transpose_size /\ right_pad <= transpose_size) =>
        /\ \A c \in Lanes :
           \A x \in (0 .. conf.l_pad - 1) \cup (conf.iw + conf.l_pad .. conf.tr_iw - 1) :
                tr_src[c][x] = 0
        /\ obs.zcols \cap (conf.l_pad .. conf.l_pad + conf.iw - 1) = {}

(* both pads are a full 16 lanes wide, on a row of several tiles *)
C6_Witness ==
    /\ gpc = "done" /\ obs.tiles = 3
    /\ left_pad = transpose_size /\ right_pad = transpose_size
    /\ tr_src[0][0] = 0 /\ tr_src[15][conf.tr_iw - 1] = 0

-----------------------------------------------------------------------------
(* Properties of the dispatcher, under SpecCreate *)

(* C9 as stated: the generic kernel exactly for (4fma, not first layer), the
   first-layer kernel exactly for (4fma, first layer), and for every other
   combination the process is terminated and nothing is returned *)
C9_AbortsOtherwise ==
    ker # "none" =>
        /\ ker = "jit_trans_iw_ic_t" <=> (conf.ver = "ver_4fma" /\ ~conf.is_1stconv)
        /\ ker = "jit_trans_iw_x4_4x_t" <=> (conf.ver = "ver_4fma" /\ conf.is_1stconv)
        /\ conf.ver # "ver_4fma" => ker = "abort"

(* C9 amended: for every other combination the process is terminated when
   assertions are compiled in, and a null pointer is returned when they are
   compiled out; a kernel is never returned *)
C9_AbortsOrNull ==
    ker # "none" =>
        /\ ker = "jit_trans_iw_ic_t" <=> (conf.ver = "ver_4fma" /\ ~conf.is_1stconv)
        /\ ker = "jit_trans_iw_x4_4x_t" <=> (conf.ver = "ver_4fma" /\ conf.is_1stconv)
        /\ conf.ver # "ver_4fma" => ker = (IF ndebug THEN "nullptr" ELSE "abort")

(* an unsupported combination was dispatched in a build without assertions *)
C9_Witness == conf.ver # "ver_4fma" /\ conf.is_1stconv /\ ker = "nullptr"

-----------------------------------------------------------------------------
(* Properties of the first-layer kernel, under SpecX4 and FairSpecX4 *)

lo(t) == ctx[t].tr_src_ih_start
hi(t) == ctx[t].tr_src_ih_end
RangeSeq(t) == [n \in 1 .. (hi(t) - lo(t)) |-> lo(t) + n - 1]
IsPrefix(a, b) == Len(a) <= Len(b) /\ \A n \in 1 .. Len(a) : a[n] = b[n]
Built == ker = "jit_trans_iw_x4_4x_t"

(* C2: once a thread has returned, for every row of its range, every k in
   [0, 4) and every column j in [0, tr_ld): dest[row][k][j] = src[row][4j + k]
   when 4j + k < iw and 0 otherwise.  Stated for destinations whose row pitch
   holds the four sub-rows (stride_w >= 4), so that rows do not overlay. *)
C2_Deinterleaved ==
    \A t \in Threads :
        (pc[t] = "ret" /\ conf.stride_w >= 4) =>
            \A r \in lo(t) .. hi(t) - 1 : \A k \in 0 .. 3 : \A j \in 0 .. conf.tr_ld - 1 :
                tr_src[r * conf.stride_w * conf.tr_ld + k * conf.tr_ld + j] =
                    IF 4 * j + k < conf.iw THEN SrcX(r * conf.iw + 4 * j + k, 0) ELSE 0

(* C3: with exactly nthr_oc_b invoking threads, a thread reads or writes only
   after every thread has arrived at the first rendezvous, and once any thread
   has returned every thread has left its row loop with all rows of its range
   written *)
C3_Bracket ==
    (Built /\ nthreads = nthr_oc_b) =>
        /\ \A t \in Threads :
            (pc[t] \in {"cmp", "loop"} \/ xobs.rows[t] # << >>) =>
                \A u \in Threads : xobs.arr[u] >= 1
        /\ \A t \in Threads :
            pc[t] = "ret" =>
                \A u \in Threads :
                    /\ pc[u] \in {"wait2", "ret"}
                    /\ \A r \in lo(u) .. hi(u) - 1 :
                        /\ <<u, r, r * tr_src_pitch>> \in xobs.st
                        /\ \A a \in StoreAddrs(r * tr_src_pitch) \cap DOMAIN tr_src :
                              tr_src[a] # Uninit

(* one of two threads has returned while the other, whose rows are written,
   still waits at the second rendezvous *)
C3_Witness ==
    /\ nthreads = 2 /\ nthr_oc_b = 2
    /\ \E t, u \in Threads :
        /\ pc[t] = "ret" /\ pc[u] = "wait2"
        /\ xobs.rows[t] # << >> /\ xobs.rows[u] # << >>

(* C4: with exactly nthr_oc_b invoking threads every thread eventually
   returns, having made exactly two rendezvous arrivals, also a thread whose
   row range is empty *)
C4_Terminates ==
    (nthreads = nthr_oc_b) ~>
        (\A t \in Threads : pc[t] = "ret" /\ xobs.arr[t] = 2)

(* two threads, one with an empty row range, have both returned after two
   arrivals each *)
C4_Witness ==
    /\ nthreads = 2 /\ nthr_oc_b = 2
    /\ \E t \in Threads : lo(t) = hi(t)
    /\ \A t \in Threads : pc[t] = "ret" /\ xobs.arr[t] = 2

(* C7: for any ih_start and ih_end a thread processes the rows of
   [ih_start, ih_end) only, each once in increasing order, reads source
   elements of those rows only and writes the destination blocks of those
   rows only; nothing when the range is empty *)
C7_RowRange ==
    \A t \in Threads :
        /\ IsPrefix(xobs.rows[t], RangeSeq(t))
        /\ pc[t] = "ret" => xobs.rows[t] = RangeSeq(t)
        /\ \A e \in xobs.ld[t] : \A a \in LoadAddrs(e[2], regs[t].kmsk) :
              lo(t) * conf.iw <= a /\ a < hi(t) * conf.iw
        /\ \A e \in xobs.st :
              e[1] = t => /\ lo(t) <= e[2] /\ e[2] < hi(t)
                          /\ e[3] = e[2] * conf.stride_w * conf.tr_ld

(* C8 as stated: when the number of invoking threads differs from nthr_oc_b,
   no thread ever gets past the first rendezvous *)
C8_HangOnMismatch ==
    nthreads # nthr_oc_b =>
        \A t \in Threads : pc[t] \in {"entry", "sync1", "wait1"}

(* C8 amended: when fewer threads than nthr_oc_b invoke the kernel, no thread
   ever gets past the first rendezvous *)
C8_HangWhenFewer ==
    nthreads < nthr_oc_b =>
        \A t \in Threads : pc[t] \in {"entry", "sync1", "wait1"}

(* every invoking thread waits at the first rendezvous for a thread that
   never comes *)
C8_Witness ==
    /\ nthreads < nthr_oc_b
    /\ \A t \in Threads : pc[t] = "wait1" /\ xobs.arr[t] = 1

(* C10 as stated: with disjoint row ranges no destination element is written
   for two different rows (hence by two different threads), for every
   stride_w >= 1 *)
C10_WritesDisjoint ==
    \A e1, e2 \in xobs.st :
        e1 # e2 => StoreAddrs(e1[3]) \cap StoreAddrs(e2[3]) = {}

(* C10 amended: the same, for every stride_w >= 4 *)
C10_WritesDisjointStride4 ==
    conf.stride_w >= 4 =>
        \A e1, e2 \in xobs.st :
            e1 # e2 => StoreAddrs(e1[3]) \cap StoreAddrs(e2[3]) = {}

(* two threads have each written a row into a destination of pitch
   stride_w * tr_ld with stride_w >= 4 *)
C10_Witness ==
    /\ conf.stride_w >= 4 /\ nthreads = 2
    /\ \A t \in Threads : pc[t] = "ret" /\ Len(xobs.rows[t]) = 1
    /\ \E e1, e2 \in xobs.st : e1[1] = 1 /\ e2[1] = 2 /\ e1[2] = 0 /\ e2[2] = 1

=============================================================================
